---- MODULE Spec2Model ----
(***************************************************************************)
(* Model of swift-gen/src/renderers/dynamic_color_renderer.rs: the two-pass *)
(* renderer that deduplicates the color pairs of a ruleset tree into a      *)
(* table (ColorSetMap) and then emits nested Swift enums whose constants    *)
(* reference the table by index.                                            *)
(*                                                                          *)
(* Two specifications:                                                      *)
(*   Spec     one or two render_into calls over an input tree, stepped at   *)
(*            the granularity of one ruleset item per step;                 *)
(*   SpecMap  the ColorSetMap alone under arbitrary sequences of            *)
(*            register_declaration / index_for_declaration calls.           *)
(***************************************************************************)
EXTENDS Integers, Sequences, FiniteSets, TLC

VARIABLES
  root,          \* the RuleSet handed to render_into (input, never modified)
  pc,            \* position inside render_into
  stack,         \* active populate_colorset_map / render_ruleset_into frames
  colorset_map,  \* the ColorSetMap: [map, colorsets]
  d,             \* the output String, as the sequence of its lines
  calls,         \* history: the ColorSetMap calls made by the current render_into
  prevOut,       \* history: the output of the previous render_into call
  run,           \* number of render_into calls started
  panic,         \* <<>> or <<message>> of the panic that ended the call
  call           \* SpecMap: the last ColorSetMap call and its outcome

vars == <<root, pc, stack, colorset_map, d, calls, prevOut, run, panic, call>>

(***************************************************************************)
(* Bounds                                                                   *)
(***************************************************************************)
\* Largest number of items (declarations and nested rulesets, at any depth)
\* of an input tree.
MaxItems == 4

(***************************************************************************)
(* Data (super::data, not part of this file: taken from the data model)     *)
(***************************************************************************)
\* Color {r, g, b: u8, a: f32}; alpha is kept in thousandths.
Color(r, g, b, a) == [r |-> r, g |-> g, b |-> b, a |-> a]

\* The colors the inputs are drawn from.
Colors == {Color(255, 0, 0, 1000), Color(128, 0, 0, 1000)}

\* DeclarationValue::Color(color) | DeclarationValue::ColorSet(colorset)
DeclarationValues ==
  {[variant |-> "Color", color |-> c] : c \in Colors}
    \cup {[variant |-> "ColorSet", colorset |-> [light |-> l, dark |-> k]] :
            l \in Colors, k \in Colors}

\* Identifier {short, depth}
Identifier(short, depth) == [short |-> short, depth |-> depth]

\* RuleSetItem::Declaration(Declaration {identifier, value})
Declaration(identifier, value) ==
  [item |-> "Declaration", identifier |-> identifier, value |-> value]

\* RuleSetItem::RuleSet(RuleSet {identifier, items})
RuleSet(identifier, items) ==
  [item |-> "RuleSet", identifier |-> identifier, items |-> items]

\* Sibling names: the i-th item of a ruleset is called "n<i>", so siblings
\* have distinct names and items of different rulesets may share one.
ShortName(i) == "n" \o ToString(i)

\* The sequences of items with exactly n items in total (nested ones
\* included), for a ruleset at nesting level depth - 1 whose next free
\* sibling position is pos.
RECURSIVE ItemSeqs(_, _, _), ItemsOfSize(_, _, _)
ItemSeqs(n, depth, pos) ==
  IF n = 0 THEN {<<>>}
  ELSE UNION {{<<t>> \o rest : t \in ItemsOfSize(k, depth, pos),
                               rest \in ItemSeqs(n - k, depth, pos + 1)} :
              k \in 1..n}

ItemsOfSize(k, depth, pos) ==
  (IF k = 1
     THEN {Declaration(Identifier(ShortName(pos), depth), v) :
             v \in DeclarationValues}
     ELSE {})
    \cup {RuleSet(Identifier(ShortName(pos), depth), items) :
            items \in ItemSeqs(k - 1, depth + 1, 1)}

\* The input trees: a root ruleset at depth 1 (directly inside the
\* "extension UIColor" wrapper) with at most MaxItems items in total, the
\* first of them (if any) with its nested items counting k.
IsTree(tree) ==
  \/ tree = RuleSet(Identifier("Brand", 1), <<>>)
  \/ \E n \in 1..MaxItems, k \in 1..MaxItems :
       /\ k <= n
       /\ \E t \in ItemsOfSize(k, 2, 1), rest \in ItemSeqs(n - k, 2, 2) :
            tree = RuleSet(Identifier("Brand", 1), <<t>> \o rest)

\* RendererConfig::indent(depth): two spaces per level.
RECURSIVE indent(_)
indent(depth) == IF depth = 0 THEN "" ELSE "  " \o indent(depth - 1)

(***************************************************************************)
(* CompatColorSet and Color::ui_color_string                                *)
(***************************************************************************)
\* Option<&Color>: None is <<>>, Some(c) is <<c>>.
None == <<>>
Some(c) == <<c>>

\* The bug of dropping the dark variant from the key.
FromLightOnly(decl) ==
  IF decl.value.variant = "Color"
    THEN [light |-> decl.value.color, dark |-> None]
    ELSE [light |-> decl.value.colorset.light, dark |-> None]

\* impl From<&Declaration> for CompatColorSet
From(decl) ==
  IF decl.value.variant = "Color"
    THEN [light |-> decl.value.color, dark |-> None]
    ELSE [light |-> decl.value.colorset.light,
          dark |-> Some(decl.value.colorset.dark)]

\* The digits of n, left-padded with zeros to the given width.
RECURSIVE Pad(_, _)
Pad(n, width) ==
  IF width = 0 THEN "" ELSE Pad(n \div 10, width - 1) \o ToString(n % 10)

\* format!("{:.3}", f32::from(channel) / 255.0): channel / 255 rounded to
\* thousandths (no channel value falls on a rounding tie).
Fmt3(channel) ==
  LET q == (channel * 2000 + 255) \div 510
  IN ToString(q \div 1000) \o "." \o Pad(q % 1000, 3)

\* format!("{:.2}", a) for an alpha given in thousandths (the alphas used
\* are not on a rounding tie).
Fmt2(a) ==
  LET q == (a + 5) \div 10
  IN ToString(q \div 100) \o "." \o Pad(q % 100, 2)

\* Color::ui_color_string
ui_color_string(color) ==
  "UIColor(red: " \o Fmt3(color.r) \o ", green: " \o Fmt3(color.g)
    \o ", blue: " \o Fmt3(color.b) \o ", alpha: " \o Fmt2(color.a) \o ")"

(***************************************************************************)
(* ColorSetMap                                                              *)
(***************************************************************************)
\* ColorSetMap::new
new == [map |-> <<>>, colorsets |-> <<>>]

\* The bug of registering without looking the pair up first.
register_declaration_no_lookup(self, decl) ==
  LET colorset == From(decl)
      idx == Len(self.colorsets)
  IN [map |-> (colorset :> idx) @@ self.map,
      colorsets |-> Append(self.colorsets, colorset)]

\* The bug of pushing the pair without recording its index.
register_declaration_no_insert(self, decl) ==
  LET colorset == From(decl)
  IN IF colorset \in DOMAIN self.map
       THEN self
       ELSE [map |-> self.map, colorsets |-> Append(self.colorsets, colorset)]

\* The bug of putting a new pair in front of the older ones.
register_declaration_front(self, decl) ==
  LET colorset == From(decl)
  IN IF colorset \in DOMAIN self.map
       THEN self
       ELSE [map |-> (colorset :> 0) @@ [k \in DOMAIN self.map |-> self.map[k] + 1],
             colorsets |-> <<colorset>> \o self.colorsets]

\* The bug of taking the index after the push.
register_declaration_late_idx(self, decl) ==
  LET colorset == From(decl)
  IN IF colorset \in DOMAIN self.map
       THEN self
       ELSE LET pushed == Append(self.colorsets, colorset)
            IN [map |-> (colorset :> Len(pushed)) @@ self.map,
                colorsets |-> pushed]

\* ColorSetMap::register_declaration
register_declaration(self, decl) ==
  LET colorset == From(decl)
  IN IF colorset \in DOMAIN self.map
       THEN self
       ELSE LET idx == Len(self.colorsets)
            IN [map |-> (colorset :> idx) @@ self.map,
                colorsets |-> Append(self.colorsets, colorset)]

\* Formatted text: the format string and its arguments after formatting.
Line(fmt, args) == [fmt |-> fmt, args |-> args]

\* The outcome of a call that may panic: the value returned, or the panic
\* message.
Returned(v) == [value |-> <<v>>, panic |-> <<>>]
Panicked(msg) == [value |-> <<>>, panic |-> <<msg>>]

\* The bug of answering a miss with index 0 instead of failing.
index_for_declaration_or_zero(self, decl) ==
  LET colorset == From(decl)
  IN IF colorset \in DOMAIN self.map
       THEN Returned(self.map[colorset])
       ELSE Returned(0)

\* ColorSetMap::index_for_declaration
index_for_declaration(self, decl) ==
  LET colorset == From(decl)
  IN IF colorset \in DOMAIN self.map
       THEN Returned(self.map[colorset])
       ELSE Panicked(Line("Could not get index for declaration.", <<>>))

(***************************************************************************)
(* The output text, one element per line                                    *)
(***************************************************************************)
\* The static text of lines 14-44, and the lines around the table.
Preamble == Line("// This file is automatically generated. [...] fileprivate func dynamicColor [...]\n", <<>>)
Blank == Line("\n", <<>>)
TableOpen == Line("fileprivate let ColorSets: [ColorSet] = [\n", <<>>)
TableClose == Line("]\n", <<>>)
ExtensionOpen == Line("extension UIColor {\n", <<>>)
ExtensionClose == Line("}\n", <<>>)

\* The table line of one entry (lines 50-57).
ColorSetLine(colorset) ==
  Line("{}ColorSet({}, {}),\n",
       <<indent(1),
         ui_color_string(colorset.light),
         IF colorset.dark = None THEN "nil" ELSE ui_color_string(colorset.dark[1])>>)

\* The bug of iterating the hash map, whose order is arbitrary, instead of
\* the vector.
RECURSIVE Orders(_)
Orders(S) ==
  IF S = {} THEN {<<>>}
  ELSE UNION {{<<x>> \o rest : rest \in Orders(S \ {x})} : x \in S}
IterationOfMap(self) == Orders(DOMAIN self.map)

\* `for colorset in &colorset_map.colorsets`: the orders in which the loop
\* may visit the entries.
Iteration(self) == {self.colorsets}

\* The bug of closing a block one level deeper than it was opened.
CloseLineDeeper(ruleset) ==
  Line("{}}}\n", <<indent(ruleset.identifier.depth + 1)>>)

\* The opening and closing lines of render_ruleset_into.
OpenLine(ruleset) ==
  Line("{}enum {} {{\n",
       <<indent(ruleset.identifier.depth), ruleset.identifier.short>>)
CloseLine(ruleset) ==
  Line("{}}}\n", <<indent(ruleset.identifier.depth)>>)

\* The bug of emitting a one-based index.
DeclarationLineOneBased(declaration, idx) ==
  Line("{}static let {} = dynamicColor(ColorSets[{}])\n",
       <<indent(declaration.identifier.depth),
         declaration.identifier.short,
         ToString(idx + 1)>>)

\* The line of render_declaration_into, for the index the lookup returned.
DeclarationLine(declaration, idx) ==
  Line("{}static let {} = dynamicColor(ColorSets[{}])\n",
       <<indent(declaration.identifier.depth),
         declaration.identifier.short,
         ToString(idx)>>)

(***************************************************************************)
(* Traversal frames: the ruleset a call is iterating and the position of    *)
(* its `for item in &ruleset.items` loop.                                   *)
(***************************************************************************)
Frame(ruleset) == [ruleset |-> ruleset, i |-> 1]
Top == stack[1]
Exhausted(frame) == frame.i > Len(frame.ruleset.items)
Item == Top.ruleset.items[Top.i]
Advance(s) == <<[s[1] EXCEPT !.i = @ + 1]>> \o Tail(s)

\* Return from every populate_colorset_map call whose loop is over.
RECURSIVE Unwind(_)
Unwind(s) ==
  IF s /= <<>> /\ Exhausted(s[1]) THEN Unwind(Tail(s)) ELSE s

\* The bug of not descending into nested rulesets.
PopulateSkip(s, ruleset) == s

\* The recursive call of populate_colorset_map on a nested ruleset.
PopulateDescend(s, ruleset) == <<Frame(ruleset)>> \o s

(***************************************************************************)
(* render_into                                                              *)
(***************************************************************************)
Init ==
  /\ IsTree(root)
  /\ pc = "ready"
  /\ stack = <<>>
  /\ colorset_map = new
  /\ d = <<>>
  /\ calls = <<>>
  /\ prevOut = <<>>
  /\ run = 0
  /\ panic = <<>>
  /\ call = <<>>

\* A call of render_into on the tree with an empty buffer (lines 9-11, up to
\* the first loop iteration of populate_colorset_map).
RenderIntoBegin ==
  /\ pc \in {"ready", "done"}
  /\ run < 2
  /\ run' = run + 1
  /\ prevOut' = d
  /\ d' = <<>>
  /\ calls' = <<>>
  /\ colorset_map' = new
  /\ stack' = Unwind(<<Frame(root)>>)
  /\ pc' = "populate"
  /\ UNCHANGED <<root, panic, call>>

\* populate_colorset_map, a Declaration item (line 139).
PopulateDeclaration ==
  /\ pc = "populate"
  /\ stack /= <<>>
  /\ Item.item = "Declaration"
  /\ colorset_map' = register_declaration(colorset_map, Item)
  /\ calls' = Append(calls, [op |-> "register", decl |-> Item, idx |-> <<>>])
  /\ stack' = Unwind(Advance(stack))
  /\ UNCHANGED <<root, pc, d, prevOut, run, panic, call>>

\* populate_colorset_map, a RuleSet item (line 140).
PopulateRuleSet ==
  /\ pc = "populate"
  /\ stack /= <<>>
  /\ Item.item = "RuleSet"
  /\ stack' = Unwind(PopulateDescend(Advance(stack), Item))
  /\ UNCHANGED <<root, pc, colorset_map, d, calls, prevOut, run, panic, call>>

\* Lines 13-47: the static preamble and the opening of the table literal.
EmitPreamble ==
  /\ pc = "populate"
  /\ stack = <<>>
  /\ d' = d \o <<Preamble, Blank, TableOpen>>
  /\ pc' = "table"
  /\ UNCHANGED <<root, stack, colorset_map, calls, prevOut, run, panic, call>>

\* Lines 49-62: one line per table entry, the end of the literal and the
\* opening of the extension.
EmitTable ==
  /\ pc = "table"
  /\ \E order \in Iteration(colorset_map) :
       d' = d \o [k \in 1..Len(order) |-> ColorSetLine(order[k])]
              \o <<TableClose, Blank, ExtensionOpen>>
  /\ pc' = "extension"
  /\ UNCHANGED <<root, stack, colorset_map, calls, prevOut, run, panic, call>>

\* Line 63: render_ruleset_into(root), up to its loop (lines 152-156).
RenderRoot ==
  /\ pc = "extension"
  /\ d' = Append(d, OpenLine(root))
  /\ stack' = <<Frame(root)>>
  /\ pc' = "render"
  /\ UNCHANGED <<root, colorset_map, calls, prevOut, run, panic, call>>

\* render_ruleset_into, a Declaration item: render_declaration_into
\* (lines 160, 168-181).  The lookup runs while the arguments of format!
\* are evaluated, so a panic leaves the buffer as it was.
RenderDeclaration ==
  /\ pc = "render"
  /\ stack /= <<>>
  /\ ~Exhausted(Top)
  /\ Item.item = "Declaration"
  /\ LET res == index_for_declaration(colorset_map, Item)
     IN IF res.panic /= <<>>
          THEN /\ pc' = "panicked"
               /\ panic' = res.panic
               /\ calls' = Append(calls, [op |-> "lookup", decl |-> Item, idx |-> <<>>])
               /\ UNCHANGED <<d, stack>>
          ELSE /\ d' = Append(d, DeclarationLine(Item, res.value[1]))
               /\ calls' = Append(calls, [op |-> "lookup", decl |-> Item, idx |-> res.value])
               /\ stack' = Advance(stack)
               /\ UNCHANGED <<pc, panic>>
  /\ UNCHANGED <<root, colorset_map, prevOut, run, call>>

\* render_ruleset_into, a RuleSet item: the recursive call up to its loop
\* (lines 161, 152-156).
RenderRuleSet ==
  /\ pc = "render"
  /\ stack /= <<>>
  /\ ~Exhausted(Top)
  /\ Item.item = "RuleSet"
  /\ d' = Append(d, OpenLine(Item))
  /\ stack' = <<Frame(Item)>> \o Advance(stack)
  /\ UNCHANGED <<root, pc, colorset_map, calls, prevOut, run, panic, call>>

\* render_ruleset_into, after the loop: the closing line and the return
\* (line 165).
RenderClose ==
  /\ pc = "render"
  /\ stack /= <<>>
  /\ Exhausted(Top)
  /\ d' = Append(d, CloseLine(Top.ruleset))
  /\ stack' = Tail(stack)
  /\ UNCHANGED <<root, pc, colorset_map, calls, prevOut, run, panic, call>>

\* Line 64: the end of the extension and of render_into.
RenderIntoEnd ==
  /\ pc = "render"
  /\ stack = <<>>
  /\ d' = Append(d, ExtensionClose)
  /\ pc' = "done"
  /\ UNCHANGED <<root, stack, colorset_map, calls, prevOut, run, panic, call>>

Next ==
  \/ RenderIntoBegin
  \/ PopulateDeclaration
  \/ PopulateRuleSet
  \/ EmitPreamble
  \/ EmitTable
  \/ RenderRoot
  \/ RenderDeclaration
  \/ RenderRuleSet
  \/ RenderClose
  \/ RenderIntoEnd

Spec == Init /\ [][Next]_vars

(***************************************************************************)
(* The ColorSetMap on its own: any sequence of calls on one map, until one  *)
(* panics.                                                                  *)
(***************************************************************************)
\* The declarations the calls are made with.
ApiDeclarations ==
  {Declaration(Identifier(ShortName(i), 2), v) :
     i \in 1..2, v \in DeclarationValues}

InitMap ==
  /\ root = RuleSet(Identifier("Brand", 1), <<>>)
  /\ pc = "api"
  /\ stack = <<>>
  /\ colorset_map = new
  /\ d = <<>>
  /\ calls = <<>>
  /\ prevOut = <<>>
  /\ run = 0
  /\ panic = <<>>
  /\ call = <<>>

RegisterCall ==
  /\ pc = "api"
  /\ \E decl \in ApiDeclarations :
       /\ colorset_map' = register_declaration(colorset_map, decl)
       /\ call' = [op |-> "register", decl |-> decl, value |-> <<>>]
  /\ UNCHANGED <<root, pc, stack, d, calls, prevOut, run, panic>>

LookupCall ==
  /\ pc = "api"
  /\ \E decl \in ApiDeclarations :
       LET res == index_for_declaration(colorset_map, decl)
       IN /\ call' = [op |-> "lookup", decl |-> decl, value |-> res.value]
          /\ panic' = res.panic
          /\ pc' = IF res.panic /= <<>> THEN "panicked" ELSE pc
  /\ UNCHANGED <<root, stack, colorset_map, d, calls, prevOut, run>>

NextMap == RegisterCall \/ LookupCall

SpecMap == InitMap /\ [][NextMap]_vars

(***************************************************************************)
(* Properties                                                               *)
(***************************************************************************)
\* The light color and the optional dark color of a declaration, read off
\* its value.
LightOf(decl) ==
  IF decl.value.variant = "Color" THEN decl.value.color
  ELSE decl.value.colorset.light
DarkOf(decl) ==
  IF decl.value.variant = "Color" THEN <<>> ELSE <<decl.value.colorset.dark>>
PairOf(decl) == [light |-> LightOf(decl), dark |-> DarkOf(decl)]
SamePair(d1, d2) == LightOf(d1) = LightOf(d2) /\ DarkOf(d1) = DarkOf(d2)

\* The declarations of a tree in depth-first, preorder, left-to-right order.
RECURSIVE PreorderDeclarations(_)
PreorderDeclarations(items) ==
  IF items = <<>> THEN <<>>
  ELSE (IF Head(items).item = "Declaration" THEN <<Head(items)>>
        ELSE PreorderDeclarations(Head(items).items))
         \o PreorderDeclarations(Tail(items))
TreeDeclarations == PreorderDeclarations(root.items)

Range(s) == {s[i] : i \in DOMAIN s}

\* A sequence without the later occurrences of its elements.
RECURSIVE FirstOccurrences(_)
FirstOccurrences(s) ==
  IF s = <<>> THEN <<>>
  ELSE LET before == FirstOccurrences(SubSeq(s, 1, Len(s) - 1))
       IN IF s[Len(s)] \in Range(before) THEN before
          ELSE Append(before, s[Len(s)])

\* The lines of the output by kind.
IsDeclarationLine(l) == l.fmt = "{}static let {} = dynamicColor(ColorSets[{}])\n"
IsColorSetLine(l) == l.fmt = "{}ColorSet({}, {}),\n"
DeclarationLines == SelectSeq(d, IsDeclarationLine)
ColorSetLines == SelectSeq(d, IsColorSetLine)

\* The calls of the current render_into by kind.
IsRegister(c) == c.op = "register"
IsLookup(c) == c.op = "lookup"
Registers == SelectSeq(calls, IsRegister)
Lookups == SelectSeq(calls, IsLookup)

\* C1: in the output of a finished render, the constants of two declarations
\* reference the same table index exactly when the declarations have the
\* same light color and the same optional dark color, wherever they are in
\* the tree.
C1_DeduplicationCorrect ==
  pc = "done" =>
    LET ds == TreeDeclarations
        ls == DeclarationLines
    IN /\ Len(ls) = Len(ds)
       /\ \A i, j \in 1..Len(ds) :
            (ls[i].args[3] = ls[j].args[3]) <=> SamePair(ds[i], ds[j])

\* C1 witness: a finished render of a tree with two declarations of the same
\* pair in different rulesets and a third one with the same light color but
\* a dark color.
C1_Witness ==
  /\ pc = "done"
  /\ LET ds == TreeDeclarations
         ls == DeclarationLines
     IN \E i, j, k \in 1..Len(ds) :
          /\ i /= j
          /\ ds[i].identifier.depth /= ds[j].identifier.depth
          /\ SamePair(ds[i], ds[j])
          /\ DarkOf(ds[i]) = <<>>
          /\ LightOf(ds[k]) = LightOf(ds[i])
          /\ DarkOf(ds[k]) /= <<>>
          /\ ls[i].args[3] = ls[j].args[3]
          /\ ls[k].args[3] /= ls[i].args[3]

\* C2: once the population pass is over, the table entries are the distinct
\* pairs of the tree's declarations in order of first encounter in preorder.
C2_OrderPreserved ==
  pc \in {"table", "extension", "render", "done"} =>
    colorset_map.colorsets
      = FirstOccurrences([i \in 1..Len(TreeDeclarations) |->
                            PairOf(TreeDeclarations[i])])

\* C2 witness: the population pass is over for a tree that starts with a
\* nested ruleset followed by further items, holds a repeated pair and at
\* least two distinct ones.
C2_Witness ==
  /\ pc = "table"
  /\ Len(root.items) >= 2
  /\ root.items[1].item = "RuleSet"
  /\ root.items[1].items /= <<>>
  /\ Len(colorset_map.colorsets) >= 2
  /\ Len(TreeDeclarations) > Len(colorset_map.colorsets)

\* C3: a render never panics: every lookup of the render pass returns an
\* index, and the call runs on until it is done.
C3_NoLookupMiss ==
  /\ pc /= "panicked"
  /\ panic = <<>>
  /\ \A i \in 1..Len(calls) : calls[i].op = "lookup" => calls[i].idx /= <<>>
  /\ pc /= "done" => ENABLED Next

\* C3 witness: a finished render whose render pass looked up declarations
\* of the root and of a nested ruleset.
C3_Witness ==
  /\ pc = "done"
  /\ \E i, j \in 1..Len(Lookups) :
       Lookups[i].decl.identifier.depth /= Lookups[j].decl.identifier.depth

\* C4: the table invariant: every key of the index map is the entry at its
\* index, no two entries are equal, and the keys are the entries, indexed
\* 0..len-1.
C4_TableInvariant ==
  LET m == colorset_map.map
      cs == colorset_map.colorsets
  IN /\ \A k \in DOMAIN m : m[k] \in 0..(Len(cs) - 1) /\ cs[m[k] + 1] = k
     /\ \A i, j \in 1..Len(cs) : i /= j => cs[i] /= cs[j]
     /\ DOMAIN m = Range(cs)
     /\ Cardinality(DOMAIN m) = Len(cs)
     /\ {m[k] : k \in DOMAIN m} = 0..(Len(cs) - 1)

\* C4 witness: a table of three entries on which the first pair has just
\* been registered again.
C4_Witness ==
  /\ call /= <<>>
  /\ call.op = "register"
  /\ Len(colorset_map.colorsets) = 3
  /\ PairOf(call.decl) = colorset_map.colorsets[1]

\* C5: the lines between the opening and the closing of the extension are
\* the block of the root ruleset, where the block of a ruleset is its
\* opening line, the lines of its items in stored order (one per
\* declaration, one block per nested ruleset) and its closing line, both at
\* the indentation of the ruleset's depth.
RECURSIVE C5_ItemsShape(_)
C5_BlockShape(ruleset) ==
  <<Line("{}enum {} {{\n",
         <<indent(ruleset.identifier.depth), ruleset.identifier.short>>)>>
    \o C5_ItemsShape(ruleset.items)
    \o <<Line("{}}}\n", <<indent(ruleset.identifier.depth)>>)>>
C5_ItemsShape(items) ==
  IF items = <<>> THEN <<>>
  ELSE (IF Head(items).item = "Declaration"
          THEN <<Line("{}static let {} = dynamicColor(ColorSets[{}])\n",
                      <<indent(Head(items).identifier.depth),
                        Head(items).identifier.short>>)>>
          ELSE C5_BlockShape(Head(items)))
         \o C5_ItemsShape(Tail(items))
C5_WithoutIndex(l) ==
  IF IsDeclarationLine(l) THEN Line(l.fmt, SubSeq(l.args, 1, 2)) ELSE l
C5_RoundTripShape ==
  pc = "done" =>
    \E n \in 1..Len(d) :
      /\ d[n] = ExtensionOpen
      /\ \A k \in 1..n : ~IsDeclarationLine(d[k]) /\ d[k].fmt /= "{}enum {} {{\n"
      /\ d[Len(d)] = ExtensionClose
      /\ [k \in 1..(Len(d) - n - 1) |-> C5_WithoutIndex(d[n + k])]
           = C5_BlockShape(root)

\* C5 witness: a finished render of a tree with a ruleset nested two levels
\* deep and an item after the block that holds it.
C5_Witness ==
  /\ pc = "done"
  /\ Len(root.items) >= 2
  /\ root.items[1].item = "RuleSet"
  /\ root.items[1].items /= <<>>
  /\ root.items[1].items[1].item = "RuleSet"

\* C6: the second render of a tree produces the output of the first.
C6_Deterministic ==
  (pc = "done" /\ run = 2) => d = prevOut

\* C6 witness: the second render is done and the table has three entries.
C6_Witness ==
  /\ pc = "done"
  /\ run = 2
  /\ Len(ColorSetLines) = 3

\* C7 (as claimed): a lookup of a pair that was never registered panics and
\* the panic message names the identifier of the declaration.
C7_MissNamesDeclaration ==
  (call /= <<>> /\ call.op = "lookup"
     /\ PairOf(call.decl) \notin Range(colorset_map.colorsets)) =>
    /\ pc = "panicked"
    /\ call.value = <<>>
    /\ Len(panic) = 1
    /\ \E i \in DOMAIN panic[1].args : panic[1].args[i] = call.decl.identifier.short

\* C7 (amended): a lookup of a pair that was never registered returns no
\* index and panics with the fixed message "Could not get index for
\* declaration.", which has no arguments; no call follows the panic.
C7_MissPanicsWithFixedMessage ==
  (call /= <<>> /\ call.op = "lookup"
     /\ PairOf(call.decl) \notin Range(colorset_map.colorsets)) =>
    /\ pc = "panicked"
    /\ call.value = <<>>
    /\ panic = <<Line("Could not get index for declaration.", <<>>)>>
    /\ ~ENABLED NextMap

\* C7 witness: a lookup missed on a table that holds other pairs.
C7_Witness ==
  /\ call /= <<>>
  /\ call.op = "lookup"
  /\ colorset_map.colorsets /= <<>>
  /\ PairOf(call.decl) \notin Range(colorset_map.colorsets)

\* C8: a register call of a pair already in the table changes nothing; one
\* of an absent pair appends it at position len and maps it to len; and no
\* call changes the index or the position of a pair registered earlier.
C8_RegisterAppendOnly ==
  [][LET m == colorset_map.map
         cs == colorset_map.colorsets
         m2 == colorset_map'.map
         cs2 == colorset_map'.colorsets
     IN /\ \A k \in DOMAIN m : k \in DOMAIN m2 /\ m2[k] = m[k]
        /\ Len(cs2) >= Len(cs)
        /\ \A i \in 1..Len(cs) : cs2[i] = cs[i]
        /\ (call' /= <<>> /\ call'.op = "register") =>
             LET pair == PairOf(call'.decl)
             IN IF pair \in Range(cs)
                  THEN colorset_map' = colorset_map
                  ELSE /\ cs2 = Append(cs, pair)
                       /\ DOMAIN m2 = DOMAIN m \cup {pair}
                       /\ m2[pair] = Len(cs)]_vars

\* C8 witness: a pair has just been registered again on a table of two
\* entries.
C8_Witness ==
  /\ call /= <<>>
  /\ call.op = "register"
  /\ Len(colorset_map.colorsets) = 2
  /\ PairOf(call.decl) = colorset_map.colorsets[1]

\* C9: within a render, no register call follows a lookup, every
\* declaration of the tree has been registered when the population pass is
\* over (before any line is written), nothing is looked up or written
\* during the population pass, and the table does not change from the
\* emission of the table literal to the end of the render pass.
C9_TwoPhaseOrdering ==
  /\ [](/\ \A i, j \in 1..Len(calls) :
             (i < j /\ calls[i].op = "lookup") => calls[j].op = "lookup"
        /\ pc \in {"table", "extension", "render", "done"} =>
             [i \in 1..Len(Registers) |-> Registers[i].decl] = TreeDeclarations
        /\ pc \in {"ready", "populate"} => (d = <<>> /\ Lookups = <<>>))
  /\ [][(pc \in {"table", "extension", "render"})
          => (colorset_map' = colorset_map)]_vars

\* C9 witness: the render pass has looked up a declaration of a nested
\* ruleset after the population pass registered several.
C9_Witness ==
  /\ pc = "render"
  /\ Len(Registers) >= 3
  /\ \E i \in 1..Len(Lookups) : Lookups[i].decl.identifier.depth > 2

\* C10: the finished output holds one ColorSet line per table entry, in
\* table order and before the extension, and the index on the line of each
\* declaration is within the table and designates the line that renders the
\* declaration's light color and its dark color, or nil for a solid color.
C10_IndicesDesignateTableLines ==
  pc = "done" =>
    LET cs == colorset_map.colorsets
        n == Len(cs)
        ds == TreeDeclarations
        ls == DeclarationLines
    IN /\ Len(d) >= n + 6
       /\ SubSeq(d, 1, 3) = <<Preamble, Blank, TableOpen>>
       /\ \A k \in 1..n :
            d[3 + k] = Line("{}ColorSet({}, {}),\n",
                            <<indent(1),
                              ui_color_string(cs[k].light),
                              IF cs[k].dark = <<>> THEN "nil"
                              ELSE ui_color_string(cs[k].dark[1])>>)
       /\ SubSeq(d, n + 4, n + 6) = <<TableClose, Blank, ExtensionOpen>>
       /\ Len(ColorSetLines) = n
       /\ Len(ls) = Len(ds)
       /\ \A i \in 1..Len(ds) :
            \E idx \in 0..(n - 1) :
              /\ ls[i].args[2] = ds[i].identifier.short
              /\ ls[i].args[3] = ToString(idx)
              /\ d[3 + idx + 1].args[2] = ui_color_string(LightOf(ds[i]))
              /\ d[3 + idx + 1].args[3]
                   = IF DarkOf(ds[i]) = <<>> THEN "nil"
                     ELSE ui_color_string(DarkOf(ds[i])[1])

\* C10 witness: a finished render whose last declaration references the
\* third table line, a pair with a dark color.
C10_Witness ==
  /\ pc = "done"
  /\ Len(ColorSetLines) = 3
  /\ DeclarationLines[Len(DeclarationLines)].args[3] = "2"
  /\ ColorSetLines[3].args[3] /= "nil"

====
